---- MODULE Spec2Model ----
(***************************************************************************)
(* Model of qod.py: a script that issues one HTTP GET to the quote-of-the- *)
(* day service, parses the body as JSON, branches on the status code and   *)
(* prints one coloured line.  Every statement of the script is one action. *)
(*                                                                         *)
(* Python strings are modelled as sequences of one-character strings; the  *)
(* element "ESC" stands for the single character 0x1b.                     *)
(***************************************************************************)
EXTENDS Integers, Sequences, FiniteSets, TLC

VARIABLES
    server,    \* environment: what the network does with the GET of line 8
    pc,        \* the statement about to run, or "raised" / "end" / "exited"
    res,       \* the script's variable res (the HTTP response), NoValue before line 8
    data,      \* the script's variable data (the parsed body), NoValue before line 9
    quote,     \* the script's variable quote, NoValue before line 11
    author,    \* the script's variable author, NoValue before line 12
    stdout,    \* the characters written to standard output so far
    stderr,    \* the uncaught exception reported on standard error, if any
    exitCode,  \* the exit status of the process, -1 while it is running
    raised,    \* the exception propagating out of the script, "none" if none
    requests,  \* history: number of HTTP GET requests issued
    prints,    \* history: number of print calls that completed
    reads,     \* history: the keys of data that were subscripted
    trace      \* history: the source lines executed, in order

vars == <<server, pc, res, data, quote, author, stdout, stderr, exitCode, raised,
          requests, prints, reads, trace>>

----------------------------------------------------------------------------
(* JSON values as Python sees them after res.json(). *)

Null == [t |-> "null"]
Str(s) == [t |-> "str", v |-> s]
Num(n) == [t |-> "num", v |-> n]
List(l) == [t |-> "list", v |-> l]
Obj(f) == [t |-> "obj", v |-> f]

NoValue == [t |-> "unbound"]

(* Sample texts. *)
BeYourself == <<"B","e"," ","y","o","u","r","s","e","l","f">>
OscarWilde == <<"O","s","c","a","r"," ","W","i","l","d","e">>
Unavailable == <<"S","e","r","v","i","c","e"," ","u","n","a","v","a","i","l","a","b","l","e">>
TwoLines == <<"a","\n","b">>
Carpe == <<"C","a","r","p","e">>
Anon == <<"A","n","o","n">>
Html == <<"<","h","t","m","l",">">>

(* The longest quotes list the environment sends. *)
MaxQuotes == 2

(* The functions with domain {} or {k} and value in V: an optional key. *)
Opt(k, V) == {<<>>} \cup {k :> x : x \in V}

QuoteFieldVals == {Str(BeYourself), Str(TwoLines), Null}
AuthorFieldVals == {Str(OscarWilde), Num(7)}
QuoteObjs == {Obj(q @@ a) : q \in Opt("quote", QuoteFieldVals),
                            a \in Opt("author", AuthorFieldVals)}
FirstElems == QuoteObjs \cup {Null, Str(BeYourself)}
Filler == Obj(("quote" :> Str(Carpe)) @@ ("author" :> Str(Anon)))
QuoteLists == {<<>>} \cup
              {<<e>> \o [i \in 1..n |-> Filler] : e \in FirstElems, n \in 0..(MaxQuotes - 1)}
QuotesVals == {List(l) : l \in QuoteLists} \cup {Null, Str(<<>>), Str(BeYourself), Obj(<<>>)}
ContentsVals == {Obj(f) : f \in Opt("quotes", QuotesVals)} \cup {Null, Str(BeYourself), List(<<>>)}
MessageVals == {Str(Unavailable), Str(TwoLines), Str(<<>>), Null, Num(7)}
ErrorVals == {Obj(f) : f \in Opt("message", MessageVals)} \cup {Null, Str(Unavailable), List(<<>>)}
JsonDocs == {Obj(c @@ e) : c \in Opt("contents", ContentsVals), e \in Opt("error", ErrorVals)}
            \cup {Null, List(<<>>), Str(BeYourself), Num(7)}

(* A response body is either a JSON document or text that is not JSON. *)
Bodies == {[kind |-> "json", doc |-> d] : d \in JsonDocs}
          \cup {[kind |-> "text", raw |-> r] : r \in {<<>>, Html}}
StatusCodes == {200, 201, 404, 500}
Responses == [status_code : StatusCodes, body : Bodies]

(* The ways the request itself fails, and the exception requests raises. *)
NetFailures == {"refused", "dns", "timeout"}
Outcomes == {[failure |-> f] : f \in NetFailures} \cup Responses
Failed(o) == "failure" \in DOMAIN o
RequestException(o) == IF o.failure = "timeout" THEN "Timeout" ELSE "ConnectionError"

----------------------------------------------------------------------------
(* Results of evaluating an expression: a value or a raised exception. *)

Ok(x) == [ok |-> TRUE, val |-> x]
Raise(e) == [ok |-> FALSE, exc |-> e]

(* Python's v[k] for a string key k on a parsed JSON value. *)
SubscriptDefault(v, k) ==
    IF v.t = "obj"
      THEN IF k \in DOMAIN v.v THEN Ok(v.v[k]) ELSE Ok(Str(<<>>))
      ELSE Raise("TypeError")

Subscript(v, k) ==
    IF v.t = "obj"
      THEN IF k \in DOMAIN v.v THEN Ok(v.v[k]) ELSE Raise("KeyError")
      ELSE Raise("TypeError")

(* Python's v[i] for an index i >= 0 on a parsed JSON value.  The keys of  *)
(* a JSON object are strings, so an integer is never one of them.          *)
Index(v, i) ==
    IF v.t = "list"
      THEN IF i < Len(v.v) THEN Ok(v.v[i + 1]) ELSE Raise("IndexError")
    ELSE IF v.t = "str"
      THEN IF i < Len(v.v) THEN Ok(Str(<<v.v[i + 1]>>)) ELSE Raise("IndexError")
    ELSE IF v.t = "obj"
      THEN Raise("KeyError")
      ELSE Raise("TypeError")

(* A further subscript applied to a result: an exception propagates. *)
GetItem(r, k) == IF r.ok THEN Subscript(r.val, k) ELSE r
GetIndex(r, i) == IF r.ok THEN Index(r.val, i) ELSE r

(* data["contents"]["quotes"][0][field] *)
QuoteField(d, field) ==
    GetItem(GetIndex(GetItem(Subscript(d, "contents"), "quotes"), 0), field)

(* data["error"]["message"] *)
ErrorMessageDefault(d) ==
    LET r == GetItem(Subscript(d, "error"), "message") IN
      IF r.ok \/ r.exc # "KeyError" THEN r ELSE Ok(Str(<<"U","n","k","n","o","w","n">>))

ErrorMessage(d) == GetItem(Subscript(d, "error"), "message")

(* res.json(): the document of a JSON body, ValueError for any other text. *)
ResJsonLenient(r) ==
    IF r.body.kind = "json" THEN Ok(r.body.doc) ELSE Ok(Obj(<<>>))

ResJson(r) ==
    IF r.body.kind = "json" THEN Ok(r.body.doc) ELSE Raise("ValueError")

(* quote + " - " + author: defined on two strings only. *)
QuoteLineNoSeparator(q, a) ==
    IF q.t = "str" /\ a.t = "str" THEN Ok(q.v \o a.v) ELSE Raise("TypeError")

QuoteLine(q, a) ==
    IF q.t = "str" /\ a.t = "str"
      THEN Ok(q.v \o <<" ", "-", " ">> \o a.v)
      ELSE Raise("TypeError")

(* pyfancy().green(s).get() and pyfancy().red(s).get(): ANSI colour codes. *)
Reset == <<"ESC", "[", "0", "m">>
GreenCode == <<"ESC", "[", "3", "2", "m">>
RedCode == <<"ESC", "[", "3", "1", "m">>

Green(s) == GreenCode \o s \o Reset

RedAsGreen(s) == GreenCode \o s \o Reset

Red(s) == RedCode \o s \o Reset

(* print(s): the text and a newline are appended to standard output. *)
WriteLineTwice(out, s) == out \o s \o <<"\n">> \o s \o <<"\n">>

WriteLine(out, s) == out \o s \o <<"\n">>

(* The suite line 10 selects. *)
BranchOnBody(r, d) ==
    IF d.t = "obj" /\ "contents" \in DOMAIN d.v THEN "quote" ELSE "red"

Branch(r, d) == IF r.status_code = 200 THEN "quote" ELSE "red"

(* The exit status of the interpreter. *)
ExitStatusNetworkOnly(exc) == IF exc = "ConnectionError" THEN 1 ELSE 0

ExitStatus(exc) == IF exc = "none" THEN 0 ELSE 1

(* str(x) of a JSON null or number. *)
Digits == <<"0","1","2","3","4","5","6","7","8","9">>
RECURSIVE Decimal(_)
Decimal(n) == IF n < 10 THEN <<Digits[n + 1]>>
              ELSE Decimal(n \div 10) \o <<Digits[(n % 10) + 1]>>
PyStr(x) == IF x.t = "str" THEN x.v
            ELSE IF x.t = "num" THEN Decimal(x.v)
            ELSE <<"N","o","n","e">>

----------------------------------------------------------------------------
Init ==
    /\ server \in Outcomes
    /\ pc = "get"
    /\ res = NoValue
    /\ data = NoValue
    /\ quote = NoValue
    /\ author = NoValue
    /\ stdout = <<>>
    /\ stderr = <<>>
    /\ exitCode = -1
    /\ raised = "none"
    /\ requests = 0
    /\ prints = 0
    /\ reads = {}
    /\ trace = <<>>

(* Line 8: res = requests.get(url).  The request fails or yields a response. *)
GetRetry ==
    /\ pc = "get"
    /\ requests' = requests + 1
    /\ trace' = Append(trace, 8)
    /\ IF Failed(server)
         THEN IF requests < 1
                THEN UNCHANGED <<pc, res, raised>>
                ELSE /\ raised' = RequestException(server)
                     /\ pc' = "raised"
                     /\ UNCHANGED res
         ELSE /\ res' = server
              /\ pc' = "json"
              /\ UNCHANGED raised
    /\ UNCHANGED <<server, data, quote, author, stdout, stderr, exitCode, prints, reads>>

GetFallback ==
    /\ pc = "get"
    /\ requests' = requests + 1
    /\ trace' = Append(trace, 8)
    /\ res' = IF Failed(server)
                THEN [status_code |-> 503,
                      body |-> [kind |-> "json",
                                doc |-> Obj("error" :> Obj("message" :> Str(Unavailable)))]]
                ELSE server
    /\ pc' = "json"
    /\ UNCHANGED <<server, data, quote, author, stdout, stderr, exitCode, raised,
                   prints, reads>>

Get ==
    /\ pc = "get"
    /\ requests' = requests + 1
    /\ trace' = Append(trace, 8)
    /\ IF Failed(server)
         THEN /\ raised' = RequestException(server)
              /\ pc' = "raised"
              /\ UNCHANGED res
         ELSE /\ res' = server
              /\ pc' = "json"
              /\ UNCHANGED raised
    /\ UNCHANGED <<server, data, quote, author, stdout, stderr, exitCode, prints, reads>>

(* Line 9: data = res.json() *)
Json ==
    /\ pc = "json"
    /\ trace' = Append(trace, 9)
    /\ LET r == ResJson(res) IN
         IF r.ok
           THEN /\ data' = r.val
                /\ pc' = "if"
                /\ UNCHANGED raised
           ELSE /\ raised' = r.exc
                /\ pc' = "raised"
                /\ UNCHANGED data
    /\ UNCHANGED <<server, res, quote, author, stdout, stderr, exitCode, requests, prints, reads>>

(* Line 10: if res.status_code == 200 *)
If ==
    /\ pc = "if"
    /\ trace' = Append(trace, 10)
    /\ pc' = Branch(res, data)
    /\ UNCHANGED <<server, res, data, quote, author, stdout, stderr, exitCode, raised,
                   requests, prints, reads>>

(* Line 11: quote = data["contents"]["quotes"][0]["quote"] *)
ReadQuote ==
    /\ pc = "quote"
    /\ trace' = Append(trace, 11)
    /\ reads' = reads \cup {"contents"}
    /\ LET r == QuoteField(data, "quote") IN
         IF r.ok
           THEN /\ quote' = r.val
                /\ pc' = "author"
                /\ UNCHANGED raised
           ELSE /\ raised' = r.exc
                /\ pc' = "raised"
                /\ UNCHANGED quote
    /\ UNCHANGED <<server, res, data, author, stdout, stderr, exitCode, requests, prints>>

(* Line 12: author = data["contents"]["quotes"][0]["author"] *)
ReadAuthor ==
    /\ pc = "author"
    /\ trace' = Append(trace, 12)
    /\ reads' = reads \cup {"contents"}
    /\ LET r == QuoteField(data, "author") IN
         IF r.ok
           THEN /\ author' = r.val
                /\ pc' = "green"
                /\ UNCHANGED raised
           ELSE /\ raised' = r.exc
                /\ pc' = "raised"
                /\ UNCHANGED author
    /\ UNCHANGED <<server, res, data, quote, stdout, stderr, exitCode, requests, prints>>

(* Line 13: print(pyfancy().green(quote + " - " + author).get()) *)
PrintGreen ==
    /\ pc = "green"
    /\ trace' = Append(trace, 13)
    /\ LET r == QuoteLine(quote, author) IN
         IF r.ok
           THEN /\ stdout' = WriteLine(stdout, Green(r.val))
                /\ prints' = prints + 1
                /\ pc' = "end"
                /\ UNCHANGED raised
           ELSE /\ raised' = r.exc
                /\ pc' = "raised"
                /\ UNCHANGED <<stdout, prints>>
    /\ UNCHANGED <<server, res, data, quote, author, stderr, exitCode, requests, reads>>

(* Line 15: print(pyfancy().red(data["error"]["message"]).get())           *)
(* For a message that is not a string the colouring either formats it with *)
(* str() or raises TypeError, depending on the pyfancy release.            *)
PrintRed ==
    /\ pc = "red"
    /\ trace' = Append(trace, 15)
    /\ reads' = reads \cup {"error"}
    /\ LET r == ErrorMessage(data) IN
         IF r.ok
           THEN \/ /\ stdout' = WriteLine(stdout, Red(PyStr(r.val)))
                   /\ prints' = prints + 1
                   /\ pc' = "end"
                   /\ UNCHANGED raised
                \/ /\ r.val.t # "str"
                   /\ raised' = "TypeError"
                   /\ pc' = "raised"
                   /\ UNCHANGED <<stdout, prints>>
           ELSE /\ raised' = r.exc
                /\ pc' = "raised"
                /\ UNCHANGED <<stdout, prints>>
    /\ UNCHANGED <<server, res, data, quote, author, stderr, exitCode, requests>>

(* The end of the script, or an exception no statement catches: the        *)
(* interpreter reports the exception on standard error and exits.          *)
Exit ==
    /\ pc \in {"end", "raised"}
    /\ pc' = "exited"
    /\ exitCode' = ExitStatus(raised)
    /\ stderr' = IF raised = "none" THEN stderr ELSE Append(stderr, raised)
    /\ UNCHANGED <<server, res, data, quote, author, stdout, raised, requests, prints,
                   reads, trace>>

Next == Get \/ Json \/ If \/ ReadQuote \/ ReadAuthor \/ PrintGreen \/ PrintRed \/ Exit

Spec == Init /\ [][Next]_vars

----------------------------------------------------------------------------
(* Vocabulary of the properties, stated on the server's answer. *)

Exited == pc = "exited"
Answered == ~Failed(server)
JsonBody == Answered /\ server.body.kind = "json"
Doc == server.body.doc
Status == server.status_code

(* d is an object whose key k holds a value of type ty. *)
Holds(d, k, ty) == d.t = "obj" /\ k \in DOMAIN d.v /\ d.v[k].t = ty
(* d is an object without the key k. *)
Lacks(d, k) == d.t = "obj" /\ k \notin DOMAIN d.v

(* contents.quotes is a non-empty list whose first element has string      *)
(* fields quote and author.                                                *)
WellFormedQuote(d) ==
    /\ Holds(d, "contents", "obj")
    /\ Holds(d.v["contents"], "quotes", "list")
    /\ Len(d.v["contents"].v["quotes"].v) > 0
    /\ Holds(d.v["contents"].v["quotes"].v[1], "quote", "str")
    /\ Holds(d.v["contents"].v["quotes"].v[1], "author", "str")
FirstQuote(d) == d.v["contents"].v["quotes"].v[1].v

(* error.message is a string. *)
WellFormedError(d) == Holds(d, "error", "obj") /\ Holds(d.v["error"], "message", "str")
Message(d) == d.v["error"].v["message"].v

(* A field the success branch reads is absent. *)
MissingQuoteField(d) ==
    \/ Lacks(d, "contents")
    \/ /\ Holds(d, "contents", "obj")
       /\ \/ Lacks(d.v["contents"], "quotes")
          \/ /\ Holds(d.v["contents"], "quotes", "list")
             /\ LET l == d.v["contents"].v["quotes"].v IN
                  \/ Len(l) = 0
                  \/ Lacks(l[1], "quote")
                  \/ Lacks(l[1], "author")

(* A field the error branch reads is absent. *)
MissingErrorField(d) ==
    \/ Lacks(d, "error")
    \/ Holds(d, "error", "obj") /\ Lacks(d.v["error"], "message")

GreenLine(q, a) ==
    <<"ESC", "[", "3", "2", "m">> \o q \o <<" ", "-", " ">> \o a
        \o <<"ESC", "[", "0", "m", "\n">>
RedLine(m) == <<"ESC", "[", "3", "1", "m">> \o m \o <<"ESC", "[", "0", "m", "\n">>

Newlines(s) == Cardinality({i \in 1..Len(s) : s[i] = "\n"})
IsPrefix(s, t) == Len(s) <= Len(t) /\ \A i \in 1..Len(s) : s[i] = t[i]
StartsWith(s, p) == IsPrefix(p, s)

Crashed == exitCode # 0 /\ exitCode # -1 /\ stderr # <<>>

----------------------------------------------------------------------------
(* C1: once a run has ended on a status-200 response whose body has a      *)
(* non-empty contents.quotes list with string quote and author in its      *)
(* first element, standard output holds exactly the green-styled text      *)
(* quote + " - " + author followed by a newline, and the exit code is 0.   *)
C1_GreenQuote ==
    (Exited /\ JsonBody /\ Status = 200 /\ WellFormedQuote(Doc)) =>
        /\ stdout = GreenLine(FirstQuote(Doc)["quote"].v, FirstQuote(Doc)["author"].v)
        /\ exitCode = 0

C1_Witness ==
    /\ Exited /\ JsonBody /\ Status = 200 /\ WellFormedQuote(Doc)
    /\ stdout = <<"ESC","[","3","2","m",
                  "B","e"," ","y","o","u","r","s","e","l","f"," ","-"," ",
                  "O","s","c","a","r"," ","W","i","l","d","e",
                  "ESC","[","0","m","\n">>
    /\ exitCode = 0

(* C2: once a run has ended on a response whose status is not 200 and      *)
(* whose body has a string at error.message, standard output holds exactly *)
(* that message styled red followed by a newline, and the exit code is 0.  *)
C2_RedMessage ==
    (Exited /\ JsonBody /\ Status # 200 /\ WellFormedError(Doc)) =>
        /\ stdout = RedLine(Message(Doc))
        /\ exitCode = 0
        /\ stderr = <<>>

C2_Witness ==
    /\ Exited /\ JsonBody /\ Status = 500
    /\ Doc = Obj("error" :> Obj("message" :> Str(Unavailable)))
    /\ stdout = <<"ESC","[","3","1","m">> \o Unavailable \o <<"ESC","[","0","m","\n">>
    /\ exitCode = 0

(* C3: on a status-200 response whose body lacks a field the success       *)
(* branch reads, nothing is ever written to standard output, and the run   *)
(* ends in an unhandled error.                                             *)
C3_MissingQuoteFieldCrashes ==
    (JsonBody /\ Status = 200 /\ MissingQuoteField(Doc)) =>
        /\ stdout = <<>>
        /\ pc # "end"
        /\ Exited => Crashed

C3_Witness ==
    /\ Exited /\ JsonBody /\ Status = 200
    /\ WellFormedError(Doc) /\ Holds(Doc, "contents", "obj")
    /\ Holds(Doc.v["contents"], "quotes", "list")
    /\ Len(Doc.v["contents"].v["quotes"].v) > 0
    /\ Holds(Doc.v["contents"].v["quotes"].v[1], "quote", "str")
    /\ Lacks(Doc.v["contents"].v["quotes"].v[1], "author")
    /\ stderr = <<"KeyError">>
    /\ stdout = <<>>

(* C4: when the request itself fails, the run raises at line 8: no other   *)
(* line runs, nothing is parsed, nothing is written to standard output,    *)
(* and the run ends in an unhandled error.                                 *)
C4_NetworkFailureCrashes ==
    (Failed(server) /\ pc # "get") =>
        /\ trace = <<8>>
        /\ res = NoValue /\ data = NoValue
        /\ stdout = <<>>
        /\ raised # "none"
        /\ Exited => Crashed

C4_Witness ==
    /\ Exited /\ Failed(server) /\ server.failure = "refused"
    /\ stderr = <<"ConnectionError">>
    /\ stdout = <<>> /\ exitCode = 1

(* C5: at most one HTTP request is ever issued, on every path. *)
C5_SingleRequest ==
    /\ requests <= 1
    /\ pc # "get" => requests = 1
    /\ Cardinality({i \in 1..Len(trace) : trace[i] = 8}) <= 1

C5_Witness ==
    /\ Exited /\ requests = 1 /\ Failed(server)

(* C6 as stated: on both handled paths the output of a finished run is     *)
(* exactly one line, and no run ever has two lines on standard output.     *)
C6_ExactlyOneLine ==
    /\ Newlines(stdout) <= 1
    /\ (Exited /\ JsonBody /\ Status = 200 /\ WellFormedQuote(Doc)) => Newlines(stdout) = 1
    /\ (Exited /\ JsonBody /\ Status # 200 /\ WellFormedError(Doc)) => Newlines(stdout) = 1

(* C6 amended: no run completes more than one print call; on both handled  *)
(* paths a finished run has completed exactly one, whose output ends in a  *)
(* newline and is one line more than the newlines of the printed text, so  *)
(* exactly one line when the text has none.                                *)
PrintedText ==
    IF Status = 200
      THEN FirstQuote(Doc)["quote"].v \o <<" ", "-", " ">> \o FirstQuote(Doc)["author"].v
      ELSE Message(Doc)
Handled ==
    /\ JsonBody
    /\ \/ Status = 200 /\ WellFormedQuote(Doc)
       \/ Status # 200 /\ WellFormedError(Doc)
C6_OnePrint ==
    /\ prints <= 1
    /\ stdout # <<>> => stdout[Len(stdout)] = "\n"
    /\ (Exited /\ Handled) =>
          /\ prints = 1
          /\ Newlines(stdout) = 1 + Newlines(PrintedText)

C6_Witness ==
    /\ Exited /\ Handled /\ Status = 404
    /\ Message(Doc) = TwoLines
    /\ Newlines(stdout) = 2 /\ prints = 1

C8_MissingErrorFieldCrashes ==
    /\ (JsonBody /\ Status # 200 /\ MissingErrorField(Doc)) =>
          /\ stdout = <<>>
          /\ pc # "end"
          /\ Exited => Crashed
    /\ (Answered /\ Status # 200 /\ stdout # <<>>) =>
          /\ JsonBody /\ Holds(Doc, "error", "obj")
          /\ "message" \in DOMAIN Doc.v["error"].v

C8_Witness ==
    /\ Exited /\ JsonBody /\ Status = 404
    /\ WellFormedQuote(Doc)
    /\ Holds(Doc, "error", "obj") /\ Lacks(Doc.v["error"], "message")
    /\ stderr = <<"KeyError">> /\ stdout = <<>> /\ exitCode = 1

(* C9: the lines run in the order 8 (request), 9 (parse), 10 (status       *)
(* check), then 11-13 or 15 (print); a body that is not JSON stops the run *)
(* at line 9 with nothing printed and an unhandled error, whatever the     *)
(* status code.                                                            *)
C9_ParseBeforeStatus ==
    /\ \/ IsPrefix(trace, <<8, 9, 10, 11, 12, 13>>)
       \/ IsPrefix(trace, <<8, 9, 10, 15>>)
    /\ stdout # <<>> => (IsPrefix(<<8, 9, 10>>, trace) /\ trace[Len(trace)] \in {13, 15})
    /\ (Answered /\ server.body.kind = "text" /\ pc \notin {"get", "json"}) =>
          /\ trace = <<8, 9>>
          /\ data = NoValue
          /\ stdout = <<>>
          /\ Exited => Crashed

C9_Witness ==
    /\ Exited /\ Answered /\ Status = 500 /\ server.body = [kind |-> "text", raw |-> Html]
    /\ trace = <<8, 9>> /\ stdout = <<>> /\ exitCode = 1

(* C10: the branch and the colour follow the status code alone: green      *)
(* output implies status 200 and red output implies another status; only   *)
(* contents is read under status 200 and only error otherwise; after the   *)
(* check line 11 runs under 200 and line 15 otherwise, whatever the body;  *)
(* a non-200 response with a valid quote never prints the green quote line *)
(* and a 200 response with error.message never prints the red message.     *)
C10_BranchOnStatusOnly ==
    /\ StartsWith(stdout, <<"ESC", "[", "3", "2", "m">>) => (Answered /\ Status = 200)
    /\ StartsWith(stdout, <<"ESC", "[", "3", "1", "m">>) => (Answered /\ Status # 200)
    /\ stdout # <<>> => \/ StartsWith(stdout, <<"ESC", "[", "3", "2", "m">>)
                        \/ StartsWith(stdout, <<"ESC", "[", "3", "1", "m">>)
    /\ Answered => reads \subseteq (IF Status = 200 THEN {"contents"} ELSE {"error"})
    /\ Len(trace) > 3 => trace[4] = (IF Status = 200 THEN 11 ELSE 15)
    /\ (JsonBody /\ Status # 200 /\ WellFormedQuote(Doc)) =>
          stdout # GreenLine(FirstQuote(Doc)["quote"].v, FirstQuote(Doc)["author"].v)
    /\ (JsonBody /\ Status = 200 /\ WellFormedError(Doc)) =>
          stdout # RedLine(Message(Doc))

C10_Witness ==
    /\ Exited /\ JsonBody /\ Status = 201
    /\ WellFormedQuote(Doc) /\ WellFormedError(Doc)
    /\ stdout = RedLine(Message(Doc))
    /\ reads = {"error"}
    /\ trace = <<8, 9, 10, 15>>

====
